---------------------------- MODULE Spec2Model ----------------------------
(***************************************************************************)
(* PhoLib: the aliasing cells MultiMut<T> (src/src/multimut.rs) and        *)
(* MultiRef<T> (src/src/multiref.rs).  Each cell is a one-field struct     *)
(* around UnsafeCell<T>; get_ref / get_mut hand out references that are    *)
(* raw pointers to the cell's single storage location, unwrap moves the    *)
(* value out.                                                              *)
(*                                                                         *)
(* Memory is modelled explicitly: a heap maps addresses to values, a       *)
(* reference is a pointer into it, a read or write through a reference is  *)
(* a load or store at the pointer's address.  A value is kept boxed, <<v>>,*)
(* and <<>> is the indeterminate content of storage that is not allocated. *)
(*                                                                         *)
(* Every state variable is a function over Kinds: one program run per cell *)
(* type.  Spec runs a program on one cell of either type; SpecEquiv runs   *)
(* the same program on a MultiMut and on a MultiRef side by side;          *)
(* SpecThreads is the `threads` test of multiref.rs.                       *)
(***************************************************************************)
EXTENDS Integers, Sequences, FiniteSets, TLC

Kinds == {"MultiMut", "MultiRef"}

\* Bounds of the model.
MaxRefs == 3
MaxWrites == 3
MaxB == 2
MaxC == 2

\* The constants of test::threads.
TestA == 10
TestB == 10
TestC == 100
TestD == 1

VARIABLES
    heap,      \* heap[k]: address -> value, the allocated storage of run k
    bind,      \* bind[k]: state of the variable that owns the cell
    cell,      \* cell[k]: the cell struct, [addr |-> address of its UnsafeCell]
    refs,      \* refs[k]: the references issued so far, in order of issue
    tyT,       \* tyT[k]: the type parameter T of the run, "i32" or "Test"
    obs,       \* obs[k]: result of the last read through a reference (boxed)
    result,    \* result[k]: value returned by unwrap (boxed), <<>> before
    init,      \* init[k]: the value the cell was constructed with (boxed)
    single,    \* single[k]: one plain variable that receives the same writes
    nwrites,   \* nwrites[k]: number of writes performed through references
    writers,   \* writers[k]: the references that were written through
    calls,     \* calls[k]: number of calls of new/get_ref/get_mut/unwrap
    unwraps,   \* unwraps[k]: number of calls of unwrap
    last,      \* last[k]: the last operation of the run
    pcMain,    \* threads test: position of the main thread
    round,     \* threads test: loop counter of `for _ in 0..b`
    tasks,     \* threads test: the spawned tasks, in order of spawning
    params     \* threads test: the values a, b, c, d

cellVars == <<heap, bind, cell, refs>>
userVars == <<tyT, obs, result, init, single, nwrites, writers, calls, unwraps, last>>
threadVars == <<pcMain, round, tasks, params>>
vars == <<heap, bind, cell, refs, tyT, obs, result, init, single, nwrites,
          writers, calls, unwraps, last, pcMain, round, tasks, params>>

--------------------------------------------------------------------------
\* Memory.

EmptyHeap == <<>>

\* A fresh address.
Alloc(h) == CHOOSE a \in 1..(Cardinality(DOMAIN h) + 1) : a \notin DOMAIN h

\* Storage whose owner is gone.
Free(h, a) == [x \in (DOMAIN h) \ {a} |-> h[x]]

\* A load through a pointer: the boxed content, indeterminate when dangling.
Load(h, p) == IF p \in DOMAIN h THEN <<h[p]>> ELSE <<>>

\* A store of a boxed value through a pointer: the heaps it may leave.  A store
\* through a dangling pointer may hit nothing or any live location; a store of
\* an indeterminate value leaves the heap as it is.
Store(h, p, bv) ==
    IF bv = <<>> THEN {h}
    ELSE IF p \in DOMAIN h THEN {[h EXCEPT ![p] = bv[1]]}
    ELSE {h} \cup {[h EXCEPT ![q] = bv[1]] : q \in DOMAIN h}

\* UnsafeCell::get: the raw pointer to the wrapped value.
UnsafeCell_get(self) == self.addr

--------------------------------------------------------------------------
\* MultiMut<T>.  Every method yields its return value, the heap it leaves and
\* its receiver mode (how the signature takes self).

MultiMut_new(h, object) ==
    LET a == Alloc(h)
    IN [ret |-> [addr |-> a], heap |-> (a :> object) @@ h, recv |-> "none"]

\* get_ref that hands out a reference to a copy taken at the call.
MultiMut_get_ref_snapshot(h, self) ==
    LET a == Alloc(h)
    IN [ret |-> [mutable |-> FALSE, ptr |-> a, life |-> "self"],
        heap |-> (a :> h[self.addr]) @@ h, recv |-> "&self"]

MultiMut_get_ref(h, self) ==
    [ret |-> [mutable |-> FALSE, ptr |-> UnsafeCell_get(self), life |-> "self"],
     heap |-> h, recv |-> "&self"]

\* get_mut that hands out a reference to a copy of the value.
MultiMut_get_mut_copy(h, self) ==
    LET a == Alloc(h)
    IN [ret |-> [mutable |-> TRUE, ptr |-> a, life |-> "self"],
        heap |-> (a :> h[self.addr]) @@ h, recv |-> "&self"]

\* get_mut with the signature of safe Rust, fn get_mut(&mut self) -> &mut T.
MultiMut_get_mut_exclusive(h, self) ==
    [ret |-> [mutable |-> TRUE, ptr |-> UnsafeCell_get(self), life |-> "self"],
     heap |-> h, recv |-> "&mut self"]

MultiMut_get_mut(h, self) ==
    [ret |-> [mutable |-> TRUE, ptr |-> UnsafeCell_get(self), life |-> "self"],
     heap |-> h, recv |-> "&self"]

\* unwrap that reads the value after the cell's storage is released.
MultiMut_unwrap_after_free(h, self) ==
    [ret |-> Load(Free(h, self.addr), self.addr), heap |-> Free(h, self.addr),
     recv |-> "self"]

\* unwrap that borrows the cell, fn unwrap(&self) -> T.
MultiMut_unwrap_borrowing(h, self) ==
    [ret |-> Load(h, self.addr), heap |-> Free(h, self.addr), recv |-> "&self"]

MultiMut_unwrap(h, self) ==
    [ret |-> Load(h, self.addr), heap |-> Free(h, self.addr), recv |-> "self"]

--------------------------------------------------------------------------
\* MultiRef<T>.

MultiRef_new(h, object) ==
    LET a == Alloc(h)
    IN [ret |-> [addr |-> a], heap |-> (a :> object) @@ h, recv |-> "none"]

\* get_ref that hands out a reference to a copy taken at the call.
MultiRef_get_ref_snapshot(h, self) ==
    LET a == Alloc(h)
    IN [ret |-> [mutable |-> FALSE, ptr |-> a, life |-> "self"],
        heap |-> (a :> h[self.addr]) @@ h, recv |-> "&self"]

MultiRef_get_ref(h, self) ==
    [ret |-> [mutable |-> FALSE, ptr |-> UnsafeCell_get(self), life |-> "self"],
     heap |-> h, recv |-> "&self"]

\* get_mut that moves the value out of the cell's storage.
MultiRef_get_mut_take(h, self) ==
    [ret |-> [mutable |-> TRUE, ptr |-> UnsafeCell_get(self), life |-> "self"],
     heap |-> Free(h, self.addr), recv |-> "&self"]

\* get_mut whose reference carries the impl's free lifetime 'l, not the
\* lifetime of the borrow of the cell: fn get_mut(&self) -> &'l mut T.
MultiRef_get_mut_unbound(h, self) ==
    [ret |-> [mutable |-> TRUE, ptr |-> UnsafeCell_get(self), life |-> "l"],
     heap |-> h, recv |-> "&self"]

MultiRef_get_mut(h, self) ==
    [ret |-> [mutable |-> TRUE, ptr |-> UnsafeCell_get(self), life |-> "self"],
     heap |-> h, recv |-> "&self"]

MultiRef_unwrap(h, self) ==
    [ret |-> Load(h, self.addr), heap |-> Free(h, self.addr), recv |-> "self"]

--------------------------------------------------------------------------
\* Dispatch on the cell type of a run.

new(k, h, object) ==
    IF k = "MultiMut" THEN MultiMut_new(h, object) ELSE MultiRef_new(h, object)

get_ref(k, h, self) ==
    IF k = "MultiMut" THEN MultiMut_get_ref(h, self) ELSE MultiRef_get_ref(h, self)

get_mut(k, h, self) ==
    IF k = "MultiMut" THEN MultiMut_get_mut(h, self) ELSE MultiRef_get_mut(h, self)

unwrap(k, h, self) ==
    IF k = "MultiMut" THEN MultiMut_unwrap(h, self) ELSE MultiRef_unwrap(h, self)

--------------------------------------------------------------------------
\* The programs that use a cell.

\* The values a cell is constructed with, per type parameter.
InitValues(ty) ==
    IF ty = "i32" THEN {0, 10} ELSE {[a |-> 1, b |-> FALSE]}

\* The writes a program performs through a mutable reference:
\* `*r += n` on an i32, `(*r).a += n` and `(*r).b = v` on a Test.
Writes(ty) ==
    IF ty = "i32"
    THEN {[op |-> "add", n |-> 1, v |-> FALSE], [op |-> "add", n |-> 2, v |-> FALSE]}
    ELSE {[op |-> "add_a", n |-> 10, v |-> FALSE], [op |-> "add_a", n |-> 7, v |-> FALSE],
          [op |-> "set_b", n |-> 0, v |-> TRUE]}

\* The effect of a write on a boxed value; an indeterminate value stays so.
Apply(w, bv) ==
    IF bv = <<>> THEN <<>>
    ELSE CASE w.op = "add" -> <<bv[1] + w.n>>
           [] w.op = "add_a" -> <<[bv[1] EXCEPT !.a = @ + w.n]>>
           [] w.op = "set_b" -> <<[bv[1] EXCEPT !.b = w.v]>>

\* The borrow checker: a call with receiver `&self` or `self` needs the owning
\* variable to hold the cell; `&mut self` needs, besides, that no reference
\* issued earlier is still in use.
CallAllowed(k, recv) ==
    /\ bind[k] = "live"
    /\ recv = "&mut self" => refs[k] = <<>>

\* The owning variable after a call: a `self` receiver moves the cell out.
BindAfter(k, recv) == IF recv = "self" THEN "moved" ELSE bind[k]

\* The borrow checker: a reference whose lifetime is that of the borrow of the
\* cell can be used only while the cell has not been moved or dropped.
Usable(k, i) ==
    /\ i \in 1..Len(refs[k])
    /\ refs[k][i].life = "self" => bind[k] = "live"

\* f with the runs in S updated by g.
Upd(f, S, g(_)) == [k \in Kinds |-> IF k \in S THEN g(k) ELSE f[k]]

\* The functions over Kinds that take a value of Out(k) on S and f's elsewhere.
Choices(f, S, Out(_)) ==
    LET O(k) == IF k \in S THEN Out(k) ELSE {f[k]}
    IN {g \in [Kinds -> UNION {O(k) : k \in Kinds}] : \A k \in Kinds : g[k] \in O(k)}

Op(name, i) == [op |-> name, ref |-> i]

\* let cell = unsafe { new(v) };
NewCore(S, ty, v) ==
    /\ \A k \in S : bind[k] = "uninit"
    /\ heap' = Upd(heap, S, LAMBDA k : new(k, heap[k], v).heap)
    /\ cell' = Upd(cell, S, LAMBDA k : new(k, heap[k], v).ret)
    /\ bind' = Upd(bind, S, LAMBDA k : "live")
    /\ tyT' = Upd(tyT, S, LAMBDA k : ty)
    /\ init' = Upd(init, S, LAMBDA k : <<v>>)
    /\ single' = Upd(single, S, LAMBDA k : <<v>>)
    /\ calls' = Upd(calls, S, LAMBDA k : calls[k] + 1)
    /\ last' = Upd(last, S, LAMBDA k : Op("new", 0))
    /\ UNCHANGED <<refs, obs, result, nwrites, writers, unwraps>>

\* let r = cell.get_ref();
GetRefCore(S) ==
    /\ \A k \in S : CallAllowed(k, get_ref(k, heap[k], cell[k]).recv)
    /\ heap' = Upd(heap, S, LAMBDA k : get_ref(k, heap[k], cell[k]).heap)
    /\ refs' = Upd(refs, S, LAMBDA k : Append(refs[k], get_ref(k, heap[k], cell[k]).ret))
    /\ bind' = Upd(bind, S, LAMBDA k : BindAfter(k, get_ref(k, heap[k], cell[k]).recv))
    /\ calls' = Upd(calls, S, LAMBDA k : calls[k] + 1)
    /\ last' = Upd(last, S, LAMBDA k : Op("get_ref", Len(refs[k]) + 1))
    /\ UNCHANGED <<cell, tyT, obs, result, init, single, nwrites, writers, unwraps>>

\* let r = cell.get_mut();
GetMutCore(S) ==
    /\ \A k \in S : CallAllowed(k, get_mut(k, heap[k], cell[k]).recv)
    /\ heap' = Upd(heap, S, LAMBDA k : get_mut(k, heap[k], cell[k]).heap)
    /\ refs' = Upd(refs, S, LAMBDA k : Append(refs[k], get_mut(k, heap[k], cell[k]).ret))
    /\ bind' = Upd(bind, S, LAMBDA k : BindAfter(k, get_mut(k, heap[k], cell[k]).recv))
    /\ calls' = Upd(calls, S, LAMBDA k : calls[k] + 1)
    /\ last' = Upd(last, S, LAMBDA k : Op("get_mut", Len(refs[k]) + 1))
    /\ UNCHANGED <<cell, tyT, obs, result, init, single, nwrites, writers, unwraps>>

\* *r += n;  (*r).a += n;  (*r).b = v;   through the i-th reference, a &mut T
WriteCore(S, i, w) ==
    /\ \A k \in S : /\ Usable(k, i)
                    /\ refs[k][i].mutable
                    /\ w \in Writes(tyT[k])
                    /\ nwrites[k] < MaxWrites
    /\ heap' \in Choices(heap, S,
                  LAMBDA k : Store(heap[k], refs[k][i].ptr,
                                   Apply(w, Load(heap[k], refs[k][i].ptr))))
    /\ single' = Upd(single, S, LAMBDA k : Apply(w, single[k]))
    /\ nwrites' = Upd(nwrites, S, LAMBDA k : nwrites[k] + 1)
    /\ writers' = Upd(writers, S, LAMBDA k : writers[k] \cup {i})
    /\ last' = Upd(last, S, LAMBDA k : Op("write", i))
    /\ UNCHANGED <<bind, cell, refs, tyT, obs, result, init, calls, unwraps>>

\* assert_eq!(*r, ..): a read through the i-th reference
ReadCore(S, i) ==
    /\ \A k \in S : Usable(k, i)
    /\ obs' = Upd(obs, S, LAMBDA k : Load(heap[k], refs[k][i].ptr))
    /\ last' = Upd(last, S, LAMBDA k : Op("read", i))
    /\ UNCHANGED <<heap, bind, cell, refs, tyT, result, init, single, nwrites,
                   writers, calls, unwraps>>

\* let value = cell.unwrap();
UnwrapCore(S) ==
    /\ \A k \in S : CallAllowed(k, unwrap(k, heap[k], cell[k]).recv)
    /\ result' = Upd(result, S, LAMBDA k : unwrap(k, heap[k], cell[k]).ret)
    /\ heap' = Upd(heap, S, LAMBDA k : unwrap(k, heap[k], cell[k]).heap)
    /\ bind' = Upd(bind, S, LAMBDA k : BindAfter(k, unwrap(k, heap[k], cell[k]).recv))
    /\ calls' = Upd(calls, S, LAMBDA k : calls[k] + 1)
    /\ unwraps' = Upd(unwraps, S, LAMBDA k : unwraps[k] + 1)
    /\ last' = Upd(last, S, LAMBDA k : Op("unwrap", 0))
    /\ UNCHANGED <<cell, refs, tyT, obs, init, single, nwrites, writers>>

\* The owning variable goes out of scope: the cell and its value are dropped.
DropCore(S) ==
    /\ \A k \in S : bind[k] = "live"
    /\ heap' = Upd(heap, S, LAMBDA k : Free(heap[k], cell[k].addr))
    /\ bind' = Upd(bind, S, LAMBDA k : "dropped")
    /\ last' = Upd(last, S, LAMBDA k : Op("drop", 0))
    /\ UNCHANGED <<cell, refs, tyT, obs, result, init, single, nwrites, writers,
                   calls, unwraps>>

--------------------------------------------------------------------------
\* A program that uses the cells of S.

New(S) ==
    /\ \A k \in Kinds : bind[k] = "uninit"
    /\ \E ty \in {"i32", "Test"} : \E v \in InitValues(ty) : NewCore(S, ty, v)
    /\ UNCHANGED threadVars

GetRef(S) ==
    /\ \A k \in S : Len(refs[k]) < MaxRefs
    /\ GetRefCore(S)
    /\ UNCHANGED threadVars

GetMut(S) ==
    /\ \A k \in S : Len(refs[k]) < MaxRefs
    /\ GetMutCore(S)
    /\ UNCHANGED threadVars

Write(S) ==
    /\ \E i \in 1..MaxRefs : \E w \in Writes("i32") \cup Writes("Test") : WriteCore(S, i, w)
    /\ UNCHANGED threadVars

Read(S) ==
    /\ \E i \in 1..MaxRefs : ReadCore(S, i)
    /\ UNCHANGED threadVars

Unwrap(S) ==
    /\ UnwrapCore(S)
    /\ UNCHANGED threadVars

Drop(S) ==
    /\ DropCore(S)
    /\ UNCHANGED threadVars

NoThreads ==
    /\ pcMain = "none"
    /\ round = 0
    /\ tasks = <<>>
    /\ params = [a |-> 0, b |-> 0, c |-> 0, d |-> 0]

InitCells ==
    /\ heap = [k \in Kinds |-> EmptyHeap]
    /\ bind = [k \in Kinds |-> "uninit"]
    /\ cell = [k \in Kinds |-> [addr |-> 0]]
    /\ refs = [k \in Kinds |-> <<>>]
    /\ tyT = [k \in Kinds |-> "none"]
    /\ obs = [k \in Kinds |-> <<>>]
    /\ result = [k \in Kinds |-> <<>>]
    /\ init = [k \in Kinds |-> <<>>]
    /\ single = [k \in Kinds |-> <<>>]
    /\ nwrites = [k \in Kinds |-> 0]
    /\ writers = [k \in Kinds |-> {}]
    /\ calls = [k \in Kinds |-> 0]
    /\ unwraps = [k \in Kinds |-> 0]
    /\ last = [k \in Kinds |-> Op("none", 0)]

Init == InitCells /\ NoThreads

\* One program on one cell, of either type.
Next ==
    \E k \in Kinds :
        \/ New({k})
        \/ GetRef({k})
        \/ GetMut({k})
        \/ Write({k})
        \/ Read({k})
        \/ Unwrap({k})
        \/ Drop({k})

Spec == Init /\ [][Next]_vars

\* The same program on a MultiMut and on a MultiRef, side by side.
NextEquiv ==
    \/ New(Kinds)
    \/ GetRef(Kinds)
    \/ GetMut(Kinds)
    \/ Write(Kinds)
    \/ Read(Kinds)
    \/ Unwrap(Kinds)
    \/ Drop(Kinds)

SpecEquiv == Init /\ [][NextEquiv]_vars

--------------------------------------------------------------------------
\* test::threads of multiref.rs: b rounds; each round opens a thread::scope,
\* takes a mutable reference and spawns one task that adds d to the value c
\* times through it; the scope ends when its tasks have finished.

MR == "MultiRef"

\* The values of a, b, c, d: those of the test, and small ones.
Params ==
    {[a |-> TestA, b |-> TestB, c |-> TestC, d |-> TestD]}
    \cup [a : {0, TestA}, b : 0..MaxB, c : 0..MaxC, d : {TestD, 2}]

Running(ts) == {t \in 1..Len(ts) : ts[t].pc # "done"}

\* A scope that does not wait for its threads.
ScopeDetached(ts) == TRUE

\* A scope that waits for the first thread only.
ScopeJoinsFirst(ts) == ts = <<>> \/ ts[1].pc = "done"

\* thread::scope returns only when every thread spawned in it has finished.
ScopeJoined(ts) == Running(ts) = {}

\* let multiref = unsafe {MultiRef::new(a)};
TNew ==
    /\ pcMain = "start"
    /\ NewCore({MR}, "i32", params.a)
    /\ pcMain' = "loop"
    /\ UNCHANGED <<round, tasks, params>>

\* for _ in 0..b
TLoop ==
    /\ pcMain = "loop"
    /\ pcMain' = IF round < params.b THEN "get_mut" ELSE "unwrap"
    /\ UNCHANGED <<cellVars, userVars, round, tasks, params>>

\* let mutref = multiref.get_mut();
TGetMut ==
    /\ pcMain = "get_mut"
    /\ GetMutCore({MR})
    /\ pcMain' = "spawn"
    /\ UNCHANGED <<round, tasks, params>>

\* scope.spawn(|| ...): the task holds the reference just taken
TSpawn ==
    /\ pcMain = "spawn"
    /\ tasks' = Append(tasks, [pc |-> "load", j |-> 0, reg |-> <<>>,
                               ref |-> Len(refs[MR])])
    /\ pcMain' = "scope_end"
    /\ UNCHANGED <<cellVars, userVars, round, params>>

\* the end of thread::scope, and of one round
TScopeEnd ==
    /\ pcMain = "scope_end"
    /\ ScopeJoined(tasks)
    /\ round' = round + 1
    /\ pcMain' = "loop"
    /\ UNCHANGED <<cellVars, userVars, tasks, params>>

\* assert_eq!(multiref.unwrap(), a + b * c * d);
TUnwrap ==
    /\ pcMain = "unwrap"
    /\ UnwrapCore({MR})
    /\ pcMain' = "done"
    /\ UNCHANGED <<round, tasks, params>>

\* `*mutref += d` is a load, an addition and a store: the load
TaskLoad(t) ==
    /\ tasks[t].pc = "load"
    /\ tasks[t].j < params.c
    /\ Usable(MR, tasks[t].ref)
    /\ tasks' = [tasks EXCEPT ![t].reg = Load(heap[MR], refs[MR][tasks[t].ref].ptr),
                              ![t].pc = "store"]
    /\ UNCHANGED <<cellVars, userVars, pcMain, round, params>>

\* `*mutref += d`: the addition and the store
TaskStore(t) ==
    /\ tasks[t].pc = "store"
    /\ Usable(MR, tasks[t].ref)
    /\ refs[MR][tasks[t].ref].mutable
    /\ heap' \in Choices(heap, {MR},
                  LAMBDA k : Store(heap[k], refs[k][tasks[t].ref].ptr,
                                   Apply([op |-> "add", n |-> params.d, v |-> FALSE],
                                         tasks[t].reg)))
    /\ tasks' = [tasks EXCEPT ![t].j = @ + 1, ![t].pc = "load"]
    /\ UNCHANGED <<bind, cell, refs, userVars, pcMain, round, params>>

\* the end of `for _ in 0..c`, and of the task
TaskExit(t) ==
    /\ tasks[t].pc = "load"
    /\ tasks[t].j = params.c
    /\ tasks' = [tasks EXCEPT ![t].pc = "done"]
    /\ UNCHANGED <<cellVars, userVars, pcMain, round, params>>

InitThreads ==
    /\ InitCells
    /\ pcMain = "start"
    /\ round = 0
    /\ tasks = <<>>
    /\ params \in Params

NextThreads ==
    \/ TNew
    \/ TLoop
    \/ TGetMut
    \/ TSpawn
    \/ TScopeEnd
    \/ TUnwrap
    \/ \E t \in 1..Len(tasks) : TaskLoad(t)
    \/ \E t \in 1..Len(tasks) : TaskStore(t)
    \/ \E t \in 1..Len(tasks) : TaskExit(t)

SpecThreads == InitThreads /\ [][NextThreads]_vars

--------------------------------------------------------------------------
\* Properties.

\* The content of the cell's storage location (boxed).
Value(k) == Load(heap[k], cell[k].addr)

\* C1: the value unwrap returns equals the result of applying the writes made
\* through the mutable references, in the order they were executed, to one
\* single variable that started at the constructed value.
C1_UnwrapEqualsSingleVariable ==
    \A k \in Kinds : unwraps[k] >= 1 => result[k] = single[k]

\* new({a:1,b:false}); x.a += 10; y.b = true; z.a += 7 through three references
\* x, y, z; unwrap gives {a:18,b:true}.
C1_Witness ==
    \E k \in Kinds :
        /\ unwraps[k] = 1
        /\ tyT[k] = "Test"
        /\ Cardinality(writers[k]) = 3
        /\ result[k] = <<[a |-> 18, b |-> TRUE]>>

\* C2: while the cell is live every reference issued so far reads the current
\* content of the cell's storage location, and so does every read performed:
\* no reference reads a snapshot taken when it was issued.
C2_EveryReferenceReadsCurrentValue ==
    \A k \in Kinds :
        bind[k] = "live" =>
            /\ Value(k) # <<>>
            /\ \A i \in 1..Len(refs[k]) : Load(heap[k], refs[k][i].ptr) = Value(k)
            /\ last[k].op = "read" => obs[k] = Value(k)

\* new(10); i = get_ref; += 1 and += 2 through two get_mut references; *i is 13.
C2_Witness ==
    \E k \in Kinds :
        /\ bind[k] = "live"
        /\ tyT[k] = "i32"
        /\ init[k] = <<10>>
        /\ Len(refs[k]) = 3
        /\ ~refs[k][1].mutable
        /\ writers[k] = {2, 3}
        /\ last[k] = Op("read", 1)
        /\ obs[k] = <<13>>

\* C3: unwrap(new(v)) returns v when no write happened in between, however
\* many get_ref and get_mut calls were made.
C3_RoundTrip ==
    \A k \in Kinds : (unwraps[k] >= 1 /\ nwrites[k] = 0) => result[k] = init[k]

C3_Witness ==
    \E k \in Kinds :
        /\ unwraps[k] = 1
        /\ nwrites[k] = 0
        /\ Len(refs[k]) >= 2
        /\ \E i, j \in 1..Len(refs[k]) : refs[k][i].mutable /\ ~refs[k][j].mutable
        /\ result[k] = init[k]
        /\ result[k] # <<>>

\* C4: a get_ref or get_mut call leaves the wrapped value as it was; between
\* construction and unwrap or drop the value changes only in a write through a
\* reference that get_mut returned.
C4_IssuingLeavesValue ==
    [][\A k \in Kinds :
         /\ (calls'[k] # calls[k] /\ last'[k].op \in {"get_ref", "get_mut"})
               => (Value(k)' = Value(k) /\ Value(k)' # <<>>)
         /\ (Value(k)' # Value(k))
               => \/ last'[k].op \in {"new", "unwrap", "drop"}
                  \/ /\ last'[k].op = "write"
                     /\ refs[k][last'[k].ref].mutable]_vars

C4_Witness ==
    \E k \in Kinds :
        /\ last[k].op = "get_mut"
        /\ Len(refs[k]) = 3
        /\ nwrites[k] >= 1
        /\ Value(k) = single[k]
        /\ Value(k) # init[k]

\* C5: while the cell is live, get_ref and get_mut are enabled whatever
\* references are outstanding, and so is unwrap; new is enabled at the start.
\* (The model stops issuing references at MaxRefs.)
C5_NeverDenied ==
    \A k \in Kinds :
        /\ (bind[k] = "live" /\ Len(refs[k]) < MaxRefs)
              => (ENABLED GetRef({k}) /\ ENABLED GetMut({k}))
        /\ bind[k] = "live" => ENABLED Unwrap({k})
        /\ (\A j \in Kinds : bind[j] = "uninit") => ENABLED New({k})

C5_Witness ==
    \E k \in Kinds :
        /\ bind[k] = "live"
        /\ Len(refs[k]) = 2
        /\ refs[k][1].mutable
        /\ refs[k][2].mutable
        /\ writers[k] = {1, 2}
        /\ ENABLED GetMut({k})
        /\ ENABLED GetRef({k})

\* C6: unwrap happens at most once per cell, and once it has happened (or the
\* cell was dropped) no get_ref, get_mut or unwrap on the cell occurs; a call
\* other than new occurs only in the live state.
C6_UnwrapConsumes ==
    [][\A k \in Kinds :
         /\ unwraps'[k] <= 1
         /\ (unwraps[k] >= 1 \/ bind[k] \in {"moved", "dropped"})
               => (calls'[k] = calls[k] /\ bind'[k] = bind[k])
         /\ (calls'[k] # calls[k] /\ last'[k].op # "new") => bind[k] = "live"
         /\ bind'[k] \in {"uninit", "live", "moved", "dropped"}]_vars

C6_Witness ==
    \E k \in Kinds :
        /\ unwraps[k] = 1
        /\ bind[k] = "moved"
        /\ Len(refs[k]) >= 2
        /\ nwrites[k] >= 1

\* C7: in the threads test the value unwrap returns after the last round is
\* a + b * c * d, for every schedule of the spawned tasks.
C7_ThreadsTotal ==
    pcMain = "done" => result[MR] = <<params.a + params.b * params.c * params.d>>

\* The test's own values: 10 + 10 * 100 * 1 = 1010.
C7_Witness ==
    /\ pcMain = "done"
    /\ params = [a |-> TestA, b |-> TestB, c |-> TestC, d |-> TestD]
    /\ Len(tasks) = TestB
    /\ result[MR] = <<1010>>

\* C8: in the threads test at most one spawned task is running at any moment,
\* a task is spawned only when all earlier ones have finished, and while a task
\* runs the main thread waits at the end of the scope (it does not touch the
\* value): no two read-modify-writes overlap.
C8_OneTaskAtATime ==
    /\ Cardinality(Running(tasks)) <= 1
    /\ \A t \in 1..(Len(tasks) - 1) : tasks[t].pc = "done"
    /\ Running(tasks) # {} => pcMain = "scope_end"
    /\ \A t \in 1..Len(tasks) :
          tasks[t].pc = "store" => tasks[t].reg = Value(MR)

C8_Witness ==
    /\ Len(tasks) = 2
    /\ tasks[1].pc = "done"
    /\ tasks[2].pc = "store"
    /\ tasks[2].j = 1
    /\ pcMain = "scope_end"

\* A step of run k that reads or writes through a reference.
UseStep(k) ==
    /\ last'[k].op \in {"read", "write"}
    /\ <<heap[k], obs[k], last[k], nwrites[k]>>' # <<heap[k], obs[k], last[k], nwrites[k]>>

\* C9: no reference is read or written after unwrap was called on its cell.
C9_NoUseAfterUnwrap ==
    [][\A k \in Kinds : UseStep(k) => (unwraps[k] = 0 /\ bind[k] = "live")]_vars

C9_Witness ==
    \E k \in Kinds :
        /\ unwraps[k] = 1
        /\ Len(refs[k]) >= 2
        /\ nwrites[k] >= 1
        /\ obs[k] # <<>>

\* C10: the same program run on a MultiMut and on a MultiRef reads the same
\* value at every read and gets the same value from unwrap.
C10_SameBehaviour ==
    /\ obs["MultiMut"] = obs["MultiRef"]
    /\ result["MultiMut"] = result["MultiRef"]
    /\ bind["MultiMut"] = bind["MultiRef"]
    /\ Len(refs["MultiMut"]) = Len(refs["MultiRef"])
    /\ Value("MultiMut") = Value("MultiRef")

C10_Witness ==
    /\ unwraps["MultiMut"] = 1
    /\ unwraps["MultiRef"] = 1
    /\ nwrites["MultiMut"] >= 2
    /\ obs["MultiRef"] # <<>>
    /\ obs["MultiRef"] # init["MultiRef"]
    /\ result["MultiMut"] # init["MultiMut"]
    /\ result["MultiRef"] = single["MultiRef"]

==========================================================================
